---- MODULE Spec2Model ----
(***************************************************************************)
(* Model of the pandas-agent MCP server (src/server.py): the seven tools   *)
(* it exposes, the execution gateway they call, and the result normalizer  *)
(* _make_json_serializable nested in dataframe_to_json_tool.               *)
(*                                                                         *)
(* Python values are records.  A scalar is [k |-> type, p |-> payload];    *)
(* a container is [k |-> type, items |-> sequence]; a dict's items are     *)
(* [key |-> value, val |-> value] in insertion order.  [k |-> "ref"] is a  *)
(* reference from inside a list or dict back to that same list or dict     *)
(* (l.append(l), d["a"] = d): a cyclic structure.                          *)
(***************************************************************************)
EXTENDS Integers, Sequences, FiniteSets, TLC

VARIABLES
    o,          \* argument of _make_json_serializable
    out,        \* what the call returned, or Raised
    out2,       \* what a second call on `out` returned
    npc,        \* "start" | "normalized" | "renormalized"
    fs,         \* content of the file at each path
    db,         \* rows of each table of the database, or Absent
    tool,       \* name of the last tool called
    code,       \* the code argument of the last call (<<>> when it takes none)
    target,     \* the output_path or table argument of the last call
    opts,       \* its remaining arguments (orient, or connection_string and if_exists)
    phase,      \* "idle" | "pending" (a call has arrived) | "done" (it has returned)
    gw,         \* what run_pandas_code returned to the last call, or NoResp
    resp,       \* what the last call returned to its caller, or Propagated
    executed,   \* the last call ran the submitted code
    opened,     \* the last call opened its output file for writing
    engine      \* the last call created a database engine

nvars == <<o, out, out2, npc>>
tvars == <<fs, db, tool, code, target, opts, phase, gw, resp, executed, opened, engine>>
vars == <<o, out, out2, npc, fs, db, tool, code, target, opts, phase, gw, resp, executed, opened, engine>>

\* ------------------------------------------------------------------ bounds

\* Largest number of nodes (scalars and containers) of a normalizer input.
MaxNodes == 3

\* ------------------------------------------------------------ Python values

Atom(k, p) == [k |-> k, p |-> p]
Cont(k, items) == [k |-> k, items |-> items]
Entry(key, val) == [key |-> key, val |-> val]

None == Atom("None", "None")
Ref == [k |-> "ref"]
\* The RecursionError that leaves _make_json_serializable.
Raised == [k |-> "<RecursionError>"]
NotYet == [k |-> "<not called>"]

NaN == "nan"

\* Scalars: native primitives, numpy scalars, Decimal, pandas sentinels,
\* datetime types, and objects of any other class.
Atoms ==
    { None,
      Atom("bool", "True"), Atom("int", "7"), Atom("str", "abc"),
      Atom("float", "1.5"), Atom("float", NaN),
      Atom("np.int64", "7"), Atom("np.bool_", "True"),
      Atom("np.float32", "1.5"), Atom("np.float32", NaN),
      Atom("np.float64", "1.5"), Atom("np.float64", NaN),
      Atom("Decimal", "12.345"), Atom("Decimal", "NaN"),
      Atom("NA", "<NA>"), Atom("NaT", "NaT"),
      Atom("date", "2024-01-15"), Atom("Timestamp", "2024-01-15 10:30:00"),
      Atom("object", "<obj>"), Atom("object", "<unprintable>") }

\* Keys of an input dict: a string, an integer, a tuple, a timestamp.
Keys ==
    { Atom("str", "a"), Atom("int", "1"),
      Cont("tuple", <<Atom("str", "a"), Atom("str", "b")>>),
      Atom("Timestamp", "2024-01-15 10:30:00") }

SeqKinds == {"list", "tuple", "set"}
\* The types a JSON document is made of; nodes of any other type are the
\* library-specific ones (numpy scalars, Decimal, dates, NA/NaT, objects).
NativeKinds == {"None", "bool", "int", "float", "str"}
IsAtom(v) == "p" \in DOMAIN v
IsNumpy(v) == v.k \in {"np.int64", "np.bool_", "np.float32", "np.float64"}

RECURSIVE Hashable(_)
Hashable(v) ==
    \/ IsAtom(v)
    \/ v.k = "tuple" /\ \A i \in 1..Len(v.items) : Hashable(v.items[i])

\* What a container of kind k may hold: Python sets hold distinct hashable
\* values, ndarray.tolist() yields no numpy scalar, a tuple or set cannot
\* refer to itself, a dict's keys are distinct.
ItemsOk(k, items) ==
    /\ k = "set" =>
        /\ \A i \in 1..Len(items) : Hashable(items[i])
        /\ \A i, j \in 1..Len(items) : i # j => items[i] # items[j]
    /\ k = "ndarray" => \A i \in 1..Len(items) : IsAtom(items[i]) /\ ~IsNumpy(items[i])
    /\ k # "list" => \A i \in 1..Len(items) : items[i] # Ref

\* Sequences of values whose node counts add up to exactly n.
RECURSIVE Vals(_), Items(_), Entries(_)
Items(n) ==
    IF n = 0 THEN {<<>>}
    ELSE UNION { { <<v>> \o rest : v \in Vals(i) \cup (IF i = 1 THEN {Ref} ELSE {}),
                                   rest \in Items(n - i) } : i \in 1..n }

Entries(n) ==
    IF n = 0 THEN {<<>>}
    ELSE UNION { UNION { { <<Entry(kk, v)>> \o rest :
                             v \in Vals(i) \cup (IF i = 1 THEN {Ref} ELSE {}),
                             rest \in { r \in Entries(n - i) :
                                          \A j \in 1..Len(r) : r[j].key # kk } } :
                         kk \in Keys } : i \in 1..n }

\* All values of exactly n nodes.
Vals(n) ==
    IF n = 1
    THEN Atoms \cup { Cont(k, <<>>) : k \in SeqKinds \cup {"ndarray", "dict"} }
    ELSE UNION { { Cont(k, it) : it \in { x \in Items(n - 1) : ItemsOk(k, x) } } :
                   k \in SeqKinds \cup {"ndarray"} }
         \cup { Cont("dict", es) : es \in Entries(n - 1) }

\* All values of at most n nodes.
Values(n) == UNION { Vals(i) : i \in 1..n }

\* ------------------------------------------- _make_json_serializable

\* isinstance(o, (str, bool, int, float)) or o is None.  numpy.float64 is a
\* subclass of Python's float, so it passes this test as well.
IsPrimitive(v) == v.k \in {"None", "str", "bool", "int", "float", "np.float64"}

\* isinstance(o, (np.integer, np.floating, np.bool_, np.number))
IsNumpyScalar(v) == v.k \in {"np.int64", "np.bool_", "np.float32", "np.float64"}

\* o.item(): the native Python value of a numpy scalar.
Item(v) ==
    CASE v.k = "np.int64" -> Atom("int", v.p)
      [] v.k = "np.bool_" -> Atom("bool", v.p)
      [] v.k \in {"np.float32", "np.float64"} -> Atom("float", v.p)

IsDecimal(v) == v.k = "Decimal"

\* pandas' test of one scalar (libmissing.checknull): None, NA, NaT, a
\* not-a-number float of any float type, a not-a-number Decimal.
CheckNull(v) ==
    \/ v.k \in {"None", "NA", "NaT"}
    \/ v.k \in {"float", "np.float32", "np.float64"} /\ v.p = NaN
    \/ v.k = "Decimal" /\ v.p = "NaN"

\* The only element of the array numpy.asarray(o, dtype=object) builds from a
\* list, when that array has exactly one element: nested lists, tuples and
\* arrays of length one are further dimensions of it.
Many == [k |-> "<many>"]
RECURSIVE Sole(_)
Sole(v) ==
    IF v.k \in {"list", "tuple", "ndarray"}
    THEN IF Len(v.items) = 1 THEN Sole(v.items[1]) ELSE Many
    ELSE v

\* Whether `if _pd.isna(o):` takes its branch.  pd.isna tests a scalar
\* directly, answers elementwise for a list or an array, and answers False
\* for any other object (dict, tuple, set).  The elementwise answer is true
\* only as an array of one true element; with several elements its truth
\* value raises ValueError, which the except clause swallows, and an empty
\* array is false or raises: in all these cases control falls through.
IsNaTrue(v) ==
    IF v.k \in {"list", "ndarray"}
    THEN LET e == Sole(v) IN IsAtom(e) /\ CheckNull(e)
    ELSE IsAtom(v) /\ CheckNull(v)

\* isinstance(o, (datetime, date, time, pd.Timestamp)); NaT subclasses datetime.
IsDatetime(v) == v.k \in {"date", "Timestamp", "NaT"}

\* o.isoformat()
Isoformat(v) ==
    CASE v.p = "2024-01-15" -> "2024-01-15"
      [] v.p = "2024-01-15 10:30:00" -> "2024-01-15T10:30:00"
      [] OTHER -> v.p

\* str(o), or None when str(o) itself raises.
StrOrNone(v) ==
    IF IsAtom(v)
    THEN IF v.p = "<unprintable>" THEN None ELSE Atom("str", v.p)
    ELSE Atom("str", "<repr>")

\* o.tolist()
ToList(v) == Cont("list", v.items)

RECURSIVE make_json_serializable(_)
make_json_serializable(v) ==
    IF v.k = "ref" THEN Raised          \* the enclosing list or dict again, without end
    ELSE IF IsPrimitive(v) THEN v
    ELSE IF IsNumpyScalar(v) THEN Item(v)
    ELSE IF IsDecimal(v) THEN Atom("str", v.p)
    ELSE IF IsNaTrue(v) THEN None
    ELSE IF IsDatetime(v) THEN Atom("str", Isoformat(v))
    ELSE IF v.k = "dict"
    THEN LET es == [i \in 1..Len(v.items) |->
                      Entry(v.items[i].key, make_json_serializable(v.items[i].val))]
         IN  IF \E i \in 1..Len(es) : es[i].val = Raised THEN Raised
             ELSE Cont("dict", es)
    ELSE IF v.k \in {"list", "tuple", "set"}
    THEN LET xs == [i \in 1..Len(v.items) |-> make_json_serializable(v.items[i])]
         IN  IF \E i \in 1..Len(xs) : xs[i] = Raised THEN Raised
             ELSE Cont("list", xs)
    ELSE IF v.k = "ndarray"
    THEN LET r == make_json_serializable(ToList(v))
         IN  IF r = Raised THEN StrOrNone(v) ELSE r
    ELSE StrOrNone(v)

\* ------------------------------------------------ files and database

\* The file at the writable output path: absent, a JSON document, or the
\* truncated or half-written remains of an interrupted write.
FileAbsent == [k |-> "<absent>"]
Partial == [k |-> "<partial>"]
Dumped(doc) == [k |-> "json", doc |-> doc]
OldDoc == Cont("list", <<Atom("str", "old")>>)

\* Output paths: one that can be opened for writing, one whose directory
\* does not exist, so that open() raises.
WritablePath == "out.json"
BadPath == "/no_such_dir/out.json"
Paths == {WritablePath, BadPath}

\* The table of the database: absent, or its number of rows.
NoTable == [exists |-> FALSE, rows |-> 0]
Table(n) == [exists |-> TRUE, rows |-> n]
\* Largest table the model follows.
MaxRows == 2
GoodConn == "sqlite:///data.db"
BadConn == "not a url"
Conns == {GoodConn, BadConn}
IfExists == {"replace", "append", "fail"}

\* ------------------------------------------------------------ responses

Absent == "<absent>"
AbsentV == [k |-> "<absent>"]
MkResp(status, message, error_type, result, info) ==
    [status |-> status, message |-> message, error_type |-> error_type,
     result |-> result, info |-> info]
ErrorResp(message) == MkResp("ERROR", message, Absent, AbsentV, AbsentV)
\* No response: the call raised and the exception left the tool.
Propagated == [status |-> "<exception>"]
NoResp == [status |-> "<none>"]

NoCall ==
    /\ tool = "" /\ code = <<>> /\ target = "" /\ opts = <<>>
    /\ phase = "idle" /\ gw = NoResp /\ resp = NoResp
    /\ executed = FALSE /\ opened = FALSE /\ engine = FALSE

\* ------------------------------------------ the execution gateway

\* Code strings are sequences of characters.
Alphabet == {"o", "s", "."}
\* Longest code string submitted.
MaxCodeLen == 4
Codes == UNION { [1..n -> Alphabet] : n \in 0..MaxCodeLen }

\* The denylist, restricted to the entry the alphabet can spell: 'os.'.
Denylist == { <<"o", "s", ".">> }

\* sub in s
Contains(s, sub) ==
    \E i \in 0..(Len(s) - Len(sub)) : SubSeq(s, i + 1, i + Len(sub)) = sub

\* A screening that looks for a denylisted entry at the start of the code only.
ScreenPrefixOnly(c) ==
    IF \E d \in Denylist : Len(c) >= Len(d) /\ SubSeq(c, 1, Len(d)) = d
    THEN "Rejected" ELSE "Allowed"

\* The Screening Filter: reject code that contains a denylisted substring.
Screen(c) == IF \E d \in Denylist : Contains(c, d) THEN "Rejected" ELSE "Allowed"

\* The DataFrames submitted code may bind to `result`.
Frames == {"plain", "nan", "multiindex", "cyclic"}
DataFrame(f) == [k |-> "DataFrame", p |-> f]
\* What executing screened code can come to.
ExecOutcomes ==
    {[k |-> "SyntaxError"], [k |-> "RuntimeError"], [k |-> "NoResult"], Atom("int", "7")}
    \cup { DataFrame(f) : f \in Frames }

\* run_pandas_code(code): screen, execute, read `result`.  Every failure is
\* turned into an ERROR response; the gateway never raises.
run_pandas_code(c, outcome) ==
    IF Screen(c) = "Rejected"
    THEN [resp |-> MkResp("ERROR", "forbidden operation", "SCREENING_REJECTED", AbsentV, AbsentV),
          executed |-> FALSE]
    ELSE [resp |->
            CASE outcome.k = "SyntaxError" ->
                   MkResp("ERROR", "invalid syntax", "SYNTAX", AbsentV, AbsentV)
              [] outcome.k = "RuntimeError" ->
                   MkResp("ERROR", "division by zero", "RUNTIME", AbsentV, AbsentV)
              [] outcome.k = "NoResult" ->
                   MkResp("ERROR", "no 'result' variable", "MISSING_RESULT", AbsentV, AbsentV)
              [] OTHER -> MkResp("SUCCESS", Absent, Absent, outcome, AbsentV),
          executed |-> TRUE]

\* What the wrapped callees read_metadata and generate_chartjs can do: return
\* a SUCCESS or an ERROR response, or raise.
CalleeOutcomes == {"SUCCESS", "ERROR", "raise"}
CalleeResp(outcome) ==
    IF outcome = "SUCCESS" THEN MkResp("SUCCESS", Absent, Absent, AbsentV, AbsentV)
    ELSE MkResp("ERROR", "callee failed", "CALLEE_ERROR", AbsentV, AbsentV)

\* --------------------------------------------------------- the tools

\* len(df)
RowsOf(f) == IF f = "plain" THEN 2 ELSE 1

ColA == Atom("str", "a")
ColAB == Cont("tuple", <<Atom("str", "a"), Atom("str", "b")>>)
Seven == Atom("int", "7")
SelfList == Cont("list", <<Ref>>)

\* df.to_dict(orient=orient) of each frame: one column of integers in two
\* rows; one row holding NaN; one row under a two-level (tuple) column
\* label; one row whose cell is a list that contains itself.  An orient
\* pandas does not know raises ValueError.
Orients == {"records", "list", "bogus"}
to_dict(f, orient) ==
    LET col == IF f = "multiindex" THEN ColAB ELSE ColA
        cell == CASE f = "nan" -> Atom("float", NaN)
                  [] f = "cyclic" -> SelfList
                  [] OTHER -> Seven
    IN  CASE orient = "records" ->
               Cont("list", [i \in 1..RowsOf(f) |-> Cont("dict", <<Entry(col, cell)>>)])
          [] orient = "list" ->
               Cont("dict", <<Entry(col, Cont("list", [i \in 1..RowsOf(f) |-> cell]))>>)
          [] OTHER -> Raised

\* Whether json.dump(v, f) runs to its end: a dict key must be a str, int,
\* float, bool or None, and every value a native type (or a subclass of
\* one); otherwise it raises TypeError after part of the text is written.
RECURSIVE JsonDumpOk(_)
JsonDumpOk(v) ==
    IF v.k = "dict"
    THEN \A i \in 1..Len(v.items) :
            /\ v.items[i].key.k \in NativeKinds \cup {"np.float64"}
            /\ JsonDumpOk(v.items[i].val)
    ELSE IF v.k = "list" THEN \A i \in 1..Len(v.items) : JsonDumpOk(v.items[i])
    ELSE v.k \in NativeKinds \cup {"np.float64"}

\* The JSON document json.dump writes: keys become strings, a float of any
\* float type a JSON number.
RECURSIVE JsonDoc(_)
JsonDoc(v) ==
    IF v.k = "dict"
    THEN Cont("dict", [i \in 1..Len(v.items) |->
                         Entry(Atom("str", v.items[i].key.p), JsonDoc(v.items[i].val))])
    ELSE IF v.k = "list" THEN Cont("list", [i \in 1..Len(v.items) |-> JsonDoc(v.items[i])])
    ELSE IF v.k = "np.float64" THEN Atom("float", v.p)
    ELSE v

\* What a call leaves behind: its response, the gateway's response to it,
\* what it did on the way, and the file and table after it.
Effect(r, g, ex, op, en, file, table) ==
    [resp |-> r, gw |-> g, executed |-> ex, opened |-> op, engine |-> en,
     fs |-> file, db |-> table]

\* read_metadata_tool
read_metadata_tool(outcome, file, table) ==
    Effect(IF outcome = "raise"
           THEN MkResp("ERROR", "read_metadata failed", "TOOL_EXECUTION_ERROR", AbsentV, AbsentV)
           ELSE CalleeResp(outcome),
           NoResp, FALSE, FALSE, FALSE, file, table)

\* run_pandas_code_tool
run_pandas_code_tool(c, outcome, file, table) ==
    LET g == run_pandas_code(c, outcome)
    IN  Effect(g.resp, g.resp, g.executed, FALSE, FALSE, file, table)

\* generate_chartjs_tool
generate_chartjs_tool(outcome, file, table) ==
    Effect(IF outcome = "raise" THEN Propagated ELSE CalleeResp(outcome),
           NoResp, FALSE, FALSE, FALSE, file, table)

\* read_json_tool: pd.read_json raises on a missing file and on text that
\* is not a JSON document.
read_json_tool(path, file, table) ==
    Effect(IF path = WritablePath /\ file.k = "json"
           THEN MkResp("SUCCESS", Absent, Absent, AbsentV, [k |-> "data", doc |-> file.doc])
           ELSE ErrorResp("cannot read JSON"),
           NoResp, FALSE, FALSE, FALSE, file, table)

\* dataframe_to_json_tool
dataframe_to_json_tool(c, outcome, path, orient, file, table) ==
    LET g == run_pandas_code(c, outcome)
        quit(r) == Effect(r, g.resp, g.executed, FALSE, FALSE, file, table)
    IN  IF g.resp.status = "ERROR" THEN quit(g.resp)
        ELSE IF g.resp.result.k # "DataFrame"
        THEN quit(ErrorResp("Expected a pandas.DataFrame in 'result'"))
        ELSE LET data == to_dict(g.resp.result.p, orient)
             IN  IF data = Raised THEN quit(ErrorResp("orient not understood"))
                 ELSE LET serializable_data == make_json_serializable(data)
                      IN  IF serializable_data = Raised
                          THEN quit(ErrorResp("maximum recursion depth exceeded"))
                          ELSE IF path # WritablePath
                          THEN quit(ErrorResp("No such file or directory"))
                          ELSE IF ~JsonDumpOk(serializable_data)
                          THEN Effect(ErrorResp("keys must be str, int, float, bool or None"),
                                      g.resp, g.executed, TRUE, FALSE, Partial, table)
                          ELSE Effect(MkResp("SUCCESS", Absent, Absent, AbsentV,
                                             [k |-> "path", p |-> path]),
                                      g.resp, g.executed, TRUE, FALSE,
                                      Dumped(JsonDoc(serializable_data)), table)

\* read_sql_tool: create_engine raises on a bad URL, pd.read_sql on a
\* missing table.
read_sql_tool(conn, file, table) ==
    IF conn # GoodConn
    THEN Effect(ErrorResp("Could not parse SQLAlchemy URL"),
                NoResp, FALSE, FALSE, FALSE, file, table)
    ELSE Effect(IF table.exists
                THEN MkResp("SUCCESS", Absent, Absent, AbsentV,
                            [k |-> "shape", rows |-> table.rows])
                ELSE ErrorResp("no such table"),
                NoResp, FALSE, FALSE, TRUE, file, table)

\* DataFrame.to_sql(table_name, engine, if_exists=if_exists)
to_sql(n, if_exists, table) ==
    IF ~table.exists \/ if_exists = "replace" THEN Table(n)
    ELSE IF if_exists = "append" THEN Table(table.rows + n)
    ELSE Raised

\* dataframe_to_sql_tool with create_engine moved ahead of the status check.
dataframe_to_sql_tool_engine_first(c, outcome, conn, if_exists, file, table) ==
    LET g == run_pandas_code(c, outcome)
        quit(r, en) == Effect(r, g.resp, g.executed, FALSE, en, file, table)
    IN  IF conn # GoodConn THEN quit(ErrorResp("Could not parse SQLAlchemy URL"), FALSE)
        ELSE IF g.resp.status = "ERROR" THEN quit(g.resp, TRUE)
        ELSE IF g.resp.result.k # "DataFrame"
        THEN quit(ErrorResp("object has no attribute 'to_sql'"), TRUE)
        ELSE LET n == RowsOf(g.resp.result.p)
                 written == to_sql(n, if_exists, table)
             IN  IF written = Raised THEN quit(ErrorResp("Table already exists"), TRUE)
                 ELSE Effect(MkResp("SUCCESS", Absent, Absent, AbsentV,
                                    [k |-> "table", rows |-> n]),
                             g.resp, g.executed, FALSE, TRUE, file, written)

\* dataframe_to_sql_tool
dataframe_to_sql_tool(c, outcome, conn, if_exists, file, table) ==
    LET g == run_pandas_code(c, outcome)
        quit(r, en) == Effect(r, g.resp, g.executed, FALSE, en, file, table)
    IN  IF g.resp.status = "ERROR" THEN quit(g.resp, FALSE)
        ELSE IF conn # GoodConn THEN quit(ErrorResp("Could not parse SQLAlchemy URL"), FALSE)
        ELSE IF g.resp.result.k # "DataFrame"
        THEN quit(ErrorResp("object has no attribute 'to_sql'"), TRUE)
        ELSE LET n == RowsOf(g.resp.result.p)
                 written == to_sql(n, if_exists, table)
             IN  IF written = Raised THEN quit(ErrorResp("Table already exists"), TRUE)
                 ELSE Effect(MkResp("SUCCESS", Absent, Absent, AbsentV,
                                    [k |-> "table", rows |-> n]),
                             g.resp, g.executed, FALSE, TRUE, file, written)

\* ------------------------------------------------------------- the server

CodeTools == {"run_pandas_code_tool", "dataframe_to_json_tool", "dataframe_to_sql_tool"}

Init ==
    /\ fs \in {FileAbsent, Dumped(OldDoc)}
    /\ db \in {NoTable, Table(1)}
    /\ NoCall
    /\ o = None /\ out = NotYet /\ out2 = NotYet /\ npc = "idle"

\* A tool call arrives with its arguments.
Receive(t, c, tg, op) ==
    /\ phase' = "pending"
    /\ tool' = t /\ code' = c /\ target' = tg /\ opts' = op
    /\ UNCHANGED <<fs, db, gw, resp, executed, opened, engine>>
    /\ UNCHANGED nvars

ReceiveCall ==
    /\ phase = "idle"
    /\ \/ \E t \in {"read_metadata_tool", "generate_chartjs_tool"} : Receive(t, <<>>, "", <<>>)
       \/ \E c \in Codes : Receive("run_pandas_code_tool", c, "", <<>>)
       \/ \E path \in Paths : Receive("read_json_tool", <<>>, path, <<>>)
       \/ \E c \in Codes, path \in Paths, orient \in Orients :
             Receive("dataframe_to_json_tool", c, path, <<orient>>)
       \/ \E conn \in Conns : Receive("read_sql_tool", <<>>, "t", <<conn>>)
       \/ \E c \in Codes, conn \in Conns, if_exists \in IfExists :
             Receive("dataframe_to_sql_tool", c, "t", <<conn, if_exists>>)

\* The pending call runs to its return.
Return(e) ==
    /\ phase' = "done"
    /\ resp' = e.resp /\ gw' = e.gw
    /\ executed' = e.executed /\ opened' = e.opened /\ engine' = e.engine
    /\ fs' = e.fs /\ db' = e.db
    /\ UNCHANGED <<tool, code, target, opts>>
    /\ UNCHANGED nvars

Pending(t) == phase = "pending" /\ tool = t

ReadMetadata ==
    /\ Pending("read_metadata_tool")
    /\ \E outcome \in CalleeOutcomes : Return(read_metadata_tool(outcome, fs, db))

RunPandasCode ==
    /\ Pending("run_pandas_code_tool")
    /\ \E outcome \in ExecOutcomes : Return(run_pandas_code_tool(code, outcome, fs, db))

GenerateChartjs ==
    /\ Pending("generate_chartjs_tool")
    /\ \E outcome \in CalleeOutcomes : Return(generate_chartjs_tool(outcome, fs, db))

ReadJson ==
    /\ Pending("read_json_tool")
    /\ Return(read_json_tool(target, fs, db))

DataframeToJson ==
    /\ Pending("dataframe_to_json_tool")
    /\ \E outcome \in ExecOutcomes :
          Return(dataframe_to_json_tool(code, outcome, target, opts[1], fs, db))

ReadSql ==
    /\ Pending("read_sql_tool")
    /\ Return(read_sql_tool(opts[1], fs, db))

DataframeToSql ==
    /\ Pending("dataframe_to_sql_tool")
    /\ \E outcome \in ExecOutcomes :
          LET e == dataframe_to_sql_tool(code, outcome, opts[1], opts[2], fs, db)
          IN  /\ e.db.rows <= MaxRows
              /\ Return(e)

\* The caller has its response; the server waits for the next call.
Reply ==
    /\ phase = "done"
    /\ phase' = "idle"
    /\ tool' = "" /\ code' = <<>> /\ target' = "" /\ opts' = <<>>
    /\ gw' = NoResp /\ resp' = NoResp
    /\ executed' = FALSE /\ opened' = FALSE /\ engine' = FALSE
    /\ UNCHANGED <<fs, db>>
    /\ UNCHANGED nvars

Next ==
    \/ ReceiveCall
    \/ ReadMetadata
    \/ RunPandasCode
    \/ GenerateChartjs
    \/ ReadJson
    \/ DataframeToJson
    \/ ReadSql
    \/ DataframeToSql
    \/ Reply

Spec == Init /\ [][Next]_vars

\* ------------------------------------------------ properties of the tools

Returns(t) == phase = "pending" /\ tool = t /\ phase' = "done"

\* C1: every call of every tool returns a mapping whose status is SUCCESS or
\* ERROR, with a message when it is ERROR; no exception leaves a tool.
C1_EveryToolReturnsStatus ==
    phase = "done" =>
        /\ resp.status \in {"SUCCESS", "ERROR"}
        /\ resp.status = "ERROR" => resp.message # Absent

\* The code contains a denylisted entry as a literal substring.
IsDenied(c) ==
    \E d \in Denylist : \E i \in 1..Len(c) :
        /\ i + Len(d) - 1 <= Len(c)
        /\ \A j \in 1..Len(d) : c[i + j - 1] = d[j]

\* C8: code that contains a denylisted substring is never executed, and the
\* call of run_pandas_code_tool, dataframe_to_json_tool or
\* dataframe_to_sql_tool that carries it returns status ERROR.
C8_DeniedCodeNeverExecuted ==
    (phase = "done" /\ tool \in CodeTools /\ IsDenied(code)) =>
        /\ ~executed
        /\ resp.status = "ERROR"

\* A call of dataframe_to_sql_tool has returned for code that holds the
\* denylisted entry behind another character.
C8_Witness ==
    /\ phase = "done" /\ tool = "dataframe_to_sql_tool"
    /\ IsDenied(code) /\ code[1] = "."
    /\ resp.status = "ERROR" /\ ~executed

\* C9: when the gateway answers ERROR, dataframe_to_json_tool and
\* dataframe_to_sql_tool return that very response and write nothing: no
\* file is opened, no engine created, file and table stay as they were.
\* dataframe_to_json_tool does the same, with an ERROR of its own, when
\* `result` is no DataFrame.  A file is opened only after both checks, an
\* engine created only after the first.
C9_ErrorBeforeAnyWrite ==
    [][ (Returns("dataframe_to_json_tool") \/ Returns("dataframe_to_sql_tool")) =>
          /\ gw'.status = "ERROR" =>
                /\ resp' = gw'
                /\ ~opened' /\ ~engine'
                /\ fs' = fs /\ db' = db
          /\ (tool = "dataframe_to_json_tool" /\ gw'.status = "SUCCESS"
                /\ gw'.result.k # "DataFrame") =>
                /\ resp'.status = "ERROR" /\ resp'.message # Absent
                /\ ~opened' /\ fs' = fs
          /\ opened' => gw'.status = "SUCCESS" /\ gw'.result.k = "DataFrame"
          /\ engine' => gw'.status = "SUCCESS"
          /\ (fs' # fs \/ db' # db) => gw'.status = "SUCCESS"
      ]_vars

\* dataframe_to_sql_tool has returned the ERROR of code that ran and failed,
\* for a connection string an engine could have been created from.
C9_Witness ==
    /\ phase = "done" /\ tool = "dataframe_to_sql_tool"
    /\ opts[1] = GoodConn
    /\ executed /\ gw.status = "ERROR" /\ resp = gw
    /\ ~engine

\* C10: dataframe_to_json_tool changes the file at output_path only on a
\* call that returns SUCCESS, and then the file holds the whole document; on
\* every call that returns ERROR the file is as it was before the call.
C10_FileChangesOnlyOnSuccess ==
    [][ Returns("dataframe_to_json_tool") =>
          /\ resp'.status = "ERROR" => fs' = fs
          /\ resp'.status = "SUCCESS" => fs'.k = "json"
      ]_vars

\* ------------------------------------------- the normalizer on its own

NormInit ==
    /\ o \in Values(MaxNodes)
    /\ out = NotYet /\ out2 = NotYet /\ npc = "start"
    /\ fs = FileAbsent /\ db = NoTable
    /\ NoCall

Normalize ==
    /\ npc = "start"
    /\ out' = make_json_serializable(o)
    /\ npc' = "normalized"
    /\ UNCHANGED <<o, out2>>
    /\ UNCHANGED tvars

Renormalize ==
    /\ npc = "normalized"
    /\ out # Raised
    /\ out2' = make_json_serializable(out)
    /\ npc' = "renormalized"
    /\ UNCHANGED <<o, out>>
    /\ UNCHANGED tvars

NormNext == Normalize \/ Renormalize

NormSpec == NormInit /\ [][NormNext]_vars

\* ------------------------------------------- properties of the normalizer

Returned == npc # "start" /\ out # Raised

\* C2: the normalizer is total and never raises: every call, on cyclic
\* input too, returns a value.
C2_NormalizerNeverRaises == npc # "start" => out # Raised

RECURSIVE AllNative(_)
AllNative(v) ==
    IF v.k = "dict" THEN \A i \in 1..Len(v.items) : AllNative(v.items[i].val)
    ELSE IF v.k = "list" THEN \A i \in 1..Len(v.items) : AllNative(v.items[i])
    ELSE v.k \in NativeKinds

\* C3: every node of a returned value, at every depth, is null, a native
\* boolean, number or string, a list or a mapping: no numpy scalar, Decimal,
\* date or NA/NaT is left anywhere.
C3_OutputOnlyNative == Returned => AllNative(out)

\* A missing-value marker: a scalar pandas' is-missing test reports missing.
IsMissing(v) == IsAtom(v) /\ CheckNull(v)

\* C4: every missing-value marker normalizes to null, at the top level and
\* as a value of a mapping or an element of a collection.
C4_MissingToNull ==
    Returned =>
        /\ IsMissing(o) => out = None
        /\ o.k = "dict" =>
             /\ out.k = "dict" /\ Len(out.items) = Len(o.items)
             /\ \A i \in 1..Len(o.items) :
                    IsMissing(o.items[i].val) => out.items[i].val = None
        /\ o.k \in SeqKinds =>
             /\ out.k = "list" /\ Len(out.items) = Len(o.items)
             /\ \A i \in 1..Len(o.items) :
                    IsMissing(o.items[i]) => out.items[i] = None

\* C5: a list, tuple or set of n elements normalizes to a list of n
\* elements, the i-th being the normalization of the i-th input element;
\* the collection as a whole never becomes null.
C5_CollectionToList ==
    (Returned /\ o.k \in SeqKinds) =>
        /\ out.k = "list"
        /\ Len(out.items) = Len(o.items)
        /\ \A i \in 1..Len(o.items) : out.items[i] = make_json_serializable(o.items[i])

\* C6: a mapping normalizes to a mapping of as many entries in the same
\* order, whose keys are all strings and whose values are the normalized
\* input values, whatever the type of the input keys.
C6_MappingKeysStrings ==
    (Returned /\ o.k = "dict") =>
        /\ out.k = "dict"
        /\ Len(out.items) = Len(o.items)
        /\ \A i \in 1..Len(o.items) :
              /\ out.items[i].key.k = "str"
              /\ out.items[i].val = make_json_serializable(o.items[i].val)

\* C7: the normalizer is idempotent: a returned value, normalized again, is
\* returned unchanged.
C7_Idempotent == npc = "renormalized" => out2 = out
====
